---- MODULE Spec2Model ----
(***************************************************************************)
(* Model of the runtime core of ratatui-template (async/src/app.rs):       *)
(* App::run, the Render Task (App::spawn_tui_task) and the Event Task      *)
(* (App::spawn_event_task), coordinating over one Arc<Mutex<Home>>, one    *)
(* unbounded mpsc action queue and two oneshot shutdown channels.          *)
(*                                                                         *)
(* The Home component (components/home.rs) is not part of the sources at   *)
(* hand; its dispatch / handle_events / init are modelled from the         *)
(* written specification and are marked as such where they are defined.    *)
(* A panic of a task is modelled as abnormal termination of that task      *)
(* (a JoinError for whoever awaits it).                                    *)
(***************************************************************************)
EXTENDS Integers, Sequences, FiniteSets, TLC

\* ---------------------------------------------------------------- bounds
\* raw events (keys, ticks) the Event Source delivers besides the timer ticks
\* that follow the shutdown signal
MaxEvents == 2
\* follow-up actions dispatch may return during one run
MaxFollowUps == 1

\* ---------------------------------------------------------------- state
VARIABLES
  rpc,          \* position of App::run
  tpc,          \* position of the Render Task
  epc,          \* position of the Event Task
  lock,         \* holder of the Home mutex: "none", "run", "tui", "event"
  waiters,      \* FIFO of parties queued on the mutex (tokio Mutex is fair)
  queue,        \* mpsc channel contents: sequence of ids into arrived
  arrived,      \* every action ever sent, in arrival order (ghost + payload)
  dispatched,   \* ids passed to Home::dispatch, in call order (ghost)
  traced,       \* ids emitted by trace_dbg!, in order (ghost)
  cur,          \* id held in `action` by the drain loop (0: none)
  followup,     \* value returned by the dispatch in progress ("None": none)
  txInstalled,  \* home.tx is Some
  initDone,     \* Home::init returned Ok
  should_quit,   \* home.should_quit
  counter,      \* home.counter
  applied,      \* sum of the deltas of the dispatches whose lock hold ended
  pending,      \* self-scheduled actions Home still has to send on its tx
  stop_tui,      \* oneshot of the Render Task
  stop_event,    \* oneshot of the Event Task
  sig,          \* ghost counters of the oneshot operations
  event,        \* raw event held by the Event Task
  eaction,      \* action held by the Event Task
  nEvents,      \* raw events delivered, the ticks after the signal aside
  nFollowUps,   \* follow-ups returned so far
  res,          \* successful tui.exit() calls and events.stop() calls,
                \* counted (ghost)
  quitCycle     \* where the dispatch of Quit lies: "none", in "this" pass of
                \* the outer loop of run(), or in an "earlier" one (ghost)

vars == << rpc, tpc, epc, lock, waiters, queue, arrived, dispatched, traced,
           cur, followup, txInstalled, initDone, should_quit, counter, applied,
           pending, stop_tui, stop_event, sig, event, eaction,
           nEvents, nFollowUps, quitCycle, res >>

runVars   == << rpc, cur, followup >>
homeVars  == << txInstalled, initDone, should_quit, counter, applied, pending >>
queueVars == << queue, arrived >>
loopGhost == << dispatched, traced, nFollowUps, quitCycle >>
ghostVars == << loopGhost, res >>
sigVars   == << stop_tui, stop_event, sig >>
eventVars == << epc, event, eaction, nEvents >>
tuiVars   == << tpc >>
lockVars  == << lock, waiters >>

\* ---------------------------------------------------------------- Action
Action == { "Quit", "Tick", "ScheduleIncrementCounter",
            "ScheduleDecrementCounter", "AddToCounter", "SubtractFromCounter",
            "Update" }

RawEvent == { "Tick", "KeyQ", "KeyJ", "KeyK" }

\* Home::handle_events: raw event -> Action
handle_events(e) ==
  CASE e = "Tick" -> "Tick"
    [] e = "KeyQ" -> "Quit"
    [] e = "KeyJ" -> "ScheduleIncrementCounter"
    [] e = "KeyK" -> "ScheduleDecrementCounter"

\* Home::dispatch, counter part: AddToCounter(1) / SubtractFromCounter(1)
Delta(a) ==
  CASE a = "AddToCounter" -> 1
    [] a = "SubtractFromCounter" -> -1
    [] OTHER -> 0

\* Home::dispatch, should_quit part
QuitAfter(q, a) == q \/ a = "Quit"

\* Home::dispatch, self-scheduling part: the action sent later on home.tx
Scheduled(a) ==
  CASE a = "ScheduleIncrementCounter" -> << "AddToCounter" >>
    [] a = "ScheduleDecrementCounter" -> << "SubtractFromCounter" >>
    [] OTHER -> << >>

\* Home::dispatch, return value: None, or Some(Update) after a counter change
FollowUps(a) ==
  IF a \in { "AddToCounter", "SubtractFromCounter" } /\ nFollowUps < MaxFollowUps
  THEN { "None", "Update" } ELSE { "None" }

\* ---------------------------------------------------------------- helpers
ActionOf(i) == arrived[i].a

\* the run loop has read should_quit = true (line 120) and is shutting down
QuitObserved ==
  rpc \in { "send_stop_tui", "send_stop_event", "join_tui", "join_event",
            "ok", "join_err" }

RunReturned == rpc \in { "ok", "init_err", "join_err" }

\* rx is a local of run(): the receiving end lives until run() returns
RxAlive == ~RunReturned

TuiEnded   == tpc \in { "finished", "panicked" }
EventEnded == epc \in { "finished", "panicked" }

\* mpsc::UnboundedSender::send: append at the tail (arrival order)
Send(a, src) ==
  /\ arrived' = Append(arrived,
                       [a |-> a, src |-> src, sq |-> should_quit,
                        obs |-> QuitObserved, sent |-> sig.eventSend > 0])
  /\ queue' = Append(queue, Len(arrived) + 1)

\* mpsc::UnboundedReceiver::try_recv: the id at the head ..
RecvHead_Newest(q) == q[Len(q)]

RecvHead(q) == Head(q)

\* .. which leaves the channel
RecvRest_Skip(q) == IF Len(q) > 1 THEN Tail(Tail(q)) ELSE Tail(q)

RecvRest(q) == Tail(q)

\* ------------------------------------------------------------ Home mutex
\* tokio::sync::Mutex::lock, fast path: the mutex is free
CanTake_Always(p) == TRUE

CanTake(p) == lock = "none"

\* the party is in the FIFO and has not been handed the mutex yet
Queued(p) == \E i \in 1..Len(waiters) : waiters[i] = p

\* lock().await resolves: the mutex was free, or a releaser handed it over
Acquire(p) ==
  \/ /\ CanTake(p)
     /\ lock' = p
     /\ waiters' = waiters
  \/ /\ lock = p
     /\ UNCHANGED << lock, waiters >>

\* lock().await suspends: the party joins the FIFO of waiters
Enqueue(p) ==
  /\ ~CanTake(p)
  /\ lock # p
  /\ ~Queued(p)
  /\ waiters' = Append(waiters, p)
  /\ lock' = lock

\* MutexGuard drop: hand the mutex to the first waiter
Release(p) ==
  IF waiters = << >>
  THEN lock' = "none" /\ waiters' = waiters
  ELSE lock' = Head(waiters) /\ waiters' = Tail(waiters)

\* ---------------------------------------------------------------- Init
Init ==
  /\ rpc = "create_channel"
  /\ tpc = "unspawned"
  /\ epc = "unspawned"
  /\ lock = "none"
  /\ waiters = << >>
  /\ queue = << >>
  /\ arrived = << >>
  /\ dispatched = << >>
  /\ traced = << >>
  /\ cur = 0
  /\ followup = "None"
  /\ txInstalled = FALSE
  /\ initDone = FALSE
  /\ should_quit = FALSE
  /\ counter = 0
  /\ applied = 0
  /\ pending = << >>
  /\ stop_tui = "none"
  /\ stop_event = "none"
  /\ sig = [ tuiSend |-> 0, tuiRecv |-> 0, eventSend |-> 0, eventRecv |-> 0 ]
  /\ event = "none"
  /\ eaction = "none"
  /\ nEvents = 0
  /\ nFollowUps = 0
  /\ quitCycle = "none"
  /\ res = [ exit |-> 0, stop |-> 0 ]

\* ---------------------------------------------------------------- App::run
RunLockPoint == { "install_tx_lock", "init_lock", "dispatch_lock",
                  "quit_check_lock" }

RunLocked(pc) ==
  CASE pc = "install_tx_lock" -> "install_tx"
    [] pc = "init_lock" -> "init"
    [] pc = "dispatch_lock" -> "dispatch"
    [] pc = "quit_check_lock" -> "quit_check"

\* let (tx, mut rx) = mpsc::unbounded_channel();
RunCreateChannel ==
  /\ rpc = "create_channel"
  /\ rpc' = "install_tx_lock"
  /\ UNCHANGED << cur, followup, tuiVars, eventVars, lockVars, queueVars,
                  ghostVars, homeVars, sigVars >>

\* self.home.lock().await at lines 98, 100, 113 and 120
RunLock ==
  /\ rpc \in RunLockPoint
  /\ \/ Acquire("run") /\ rpc' = RunLocked(rpc)
     \/ Enqueue("run") /\ rpc' = rpc
  /\ UNCHANGED << cur, followup, tuiVars, eventVars, queueVars, ghostVars,
                  homeVars, sigVars >>

\* self.home.lock().await.tx = Some(tx.clone());
RunInstallTx ==
  /\ rpc = "install_tx"
  /\ txInstalled' = TRUE
  /\ Release("run")
  /\ rpc' = "init_lock"
  /\ UNCHANGED << cur, followup, tuiVars, eventVars, queueVars, ghostVars,
                  initDone, should_quit, counter, applied, pending, sigVars >>

\* self.home.lock().await.init()?;
InitOutcome_Ignored(ok) == "spawn_tui"

InitOutcome(ok) == IF ok THEN "spawn_tui" ELSE "init_err"

RunInit ==
  /\ rpc = "init"
  /\ \E ok \in BOOLEAN :
       /\ initDone' = ok
       /\ rpc' = InitOutcome(ok)
  /\ Release("run")
  /\ UNCHANGED << cur, followup, tuiVars, eventVars, queueVars, ghostVars,
                  txInstalled, should_quit, counter, applied, pending,
                  sigVars >>

\* let (tui_task, stop_tui_tx) = self.spawn_tui_task();
RunSpawnTui ==
  /\ rpc = "spawn_tui"
  /\ tpc' = "new"
  /\ stop_tui' = "open"
  /\ rpc' = "spawn_event"
  /\ UNCHANGED << cur, followup, eventVars, lockVars, queueVars,
                  ghostVars, homeVars, stop_event, sig >>

\* let (event_task, stop_event_tx) = self.spawn_event_task(tx.clone());
RunSpawnEvent ==
  /\ rpc = "spawn_event"
  /\ epc' = "next"
  /\ stop_event' = "open"
  /\ rpc' = "try_recv"
  /\ UNCHANGED << cur, followup, tuiVars, event, eaction, nEvents, lockVars,
                  queueVars, ghostVars, homeVars, stop_tui, sig >>

\* maybe_action = rx.try_recv().ok(); while maybe_action.is_some() { .. }
RunTryRecv ==
  /\ rpc = "try_recv"
  /\ IF queue # << >>
     THEN /\ cur' = RecvHead(queue)
          /\ queue' = RecvRest(queue)
          /\ rpc' = "trace"
     ELSE /\ rpc' = "quit_check_lock"
          /\ UNCHANGED << cur, queue >>
  /\ UNCHANGED << followup, arrived, tuiVars, eventVars, lockVars, ghostVars,
                  homeVars, sigVars >>

\* if action != Action::Tick { trace_dbg!(action); }
Traced_All(a) == TRUE

Traced(a) == a # "Tick"

RunTrace ==
  /\ rpc = "trace"
  /\ traced' = IF Traced(ActionOf(cur)) THEN Append(traced, cur) ELSE traced
  /\ rpc' = "dispatch_lock"
  /\ UNCHANGED << cur, followup, tuiVars, eventVars, lockVars, queueVars,
                  dispatched, nFollowUps, quitCycle, res, homeVars, sigVars >>

\* self.home.lock().await.dispatch(action): the call, under the guard
RunDispatch ==
  /\ rpc = "dispatch"
  /\ dispatched' = Append(dispatched, cur)
  /\ counter' = counter + Delta(ActionOf(cur))
  /\ should_quit' = QuitAfter(should_quit, ActionOf(cur))
  /\ pending' = pending \o Scheduled(ActionOf(cur))
  /\ \E f \in FollowUps(ActionOf(cur)) :
       /\ followup' = f
       /\ nFollowUps' = IF f = "None" THEN nFollowUps ELSE nFollowUps + 1
  /\ quitCycle' = IF quitCycle = "none" /\ ActionOf(cur) = "Quit"
                  THEN "this" ELSE quitCycle
  /\ rpc' = "send_followup"
  /\ UNCHANGED << cur, tuiVars, eventVars, lockVars, queueVars, traced, res,
                  txInstalled, initDone, applied, sigVars >>

\* if let Some(action) = .. { tx.send(action)? }
SendFollowUp_Dropped(f) == UNCHANGED queueVars

SendFollowUp(f) ==
  IF f # "None" THEN Send(f, "followup") ELSE UNCHANGED queueVars

\* maybe_action = rx.try_recv().ok(); at the end of the `while` body: the
\* loop pops again
AfterBody_NoLoop == "quit_check_lock"

AfterBody == "try_recv"

\* the guard is a temporary of the `if let` scrutinee: it is dropped at the
\* end of the statement, after the send
RunSendFollowUp ==
  /\ rpc = "send_followup"
  /\ SendFollowUp(followup)
  /\ applied' = applied + Delta(ActionOf(cur))
  /\ Release("run")
  /\ cur' = 0
  /\ followup' = "None"
  /\ rpc' = AfterBody
  /\ UNCHANGED << tuiVars, eventVars, ghostVars, txInstalled, initDone,
                  should_quit, counter, pending, sigVars >>

\* if self.home.lock().await.should_quit { .. }
AfterQuitCheck_NextPass(q) ==
  IF q /\ quitCycle = "earlier" THEN "send_stop_tui" ELSE "try_recv"

AfterQuitCheck(q) == IF q THEN "send_stop_tui" ELSE "try_recv"

RunQuitCheck ==
  /\ rpc = "quit_check"
  /\ Release("run")
  /\ rpc' = AfterQuitCheck(should_quit)
  /\ quitCycle' = IF rpc' = "try_recv" /\ quitCycle = "this"
                  THEN "earlier" ELSE quitCycle
  /\ UNCHANGED << cur, followup, tuiVars, eventVars, queueVars, dispatched,
                  traced, nFollowUps, res, homeVars, sigVars >>

\* oneshot::Sender::send: Err(()) when the receiver is gone, value stored
\* otherwise
OneshotSend(ch, receiverGone) == IF receiverGone THEN ch ELSE "sent"

\* stop_tui_tx.send(()).unwrap_or(());
RunSendStopTui ==
  /\ rpc = "send_stop_tui"
  /\ stop_tui' = OneshotSend(stop_tui, TuiEnded)
  /\ sig' = [ sig EXCEPT !.tuiSend = @ + 1 ]
  /\ rpc' = "send_stop_event"
  /\ UNCHANGED << cur, followup, tuiVars, eventVars, lockVars, queueVars,
                  ghostVars, homeVars, stop_event >>

\* stop_event_tx.send(()).unwrap_or(());
RunSendStopEvent ==
  /\ rpc = "send_stop_event"
  /\ stop_event' = OneshotSend(stop_event, EventEnded)
  /\ sig' = [ sig EXCEPT !.eventSend = @ + 1 ]
  /\ rpc' = "join_tui"
  /\ UNCHANGED << cur, followup, tuiVars, eventVars, lockVars, queueVars,
                  ghostVars, homeVars, stop_tui >>

\* tui_task.await?;
AfterJoinTui_JoinBoth(t) == "join_event"

AfterJoinTui(t) == IF t = "finished" THEN "join_event" ELSE "join_err"

RunJoinTui ==
  /\ rpc = "join_tui"
  /\ TuiEnded
  /\ rpc' = AfterJoinTui(tpc)
  /\ UNCHANGED << cur, followup, tuiVars, eventVars, lockVars, queueVars,
                  ghostVars, homeVars, sigVars >>

\* event_task.await?; break; .. Ok(())
AfterJoinEvent_NoBreak(e) == IF e = "finished" THEN "try_recv" ELSE "join_err"

AfterJoinEvent(e) == IF e = "finished" THEN "ok" ELSE "join_err"

RunJoinEvent ==
  /\ rpc = "join_event"
  /\ EventEnded
  /\ rpc' = AfterJoinEvent(epc)
  /\ UNCHANGED << cur, followup, tuiVars, eventVars, lockVars, queueVars,
                  ghostVars, homeVars, sigVars >>

\* ------------------------------------------------------------ Render Task
\* TuiHandler::new()..unwrap(); tui.enter().unwrap();
TuiEnter ==
  /\ tpc = "new"
  /\ tpc' = "lock"
  /\ UNCHANGED << runVars, eventVars, lockVars, queueVars,
                  ghostVars, homeVars, sigVars >>

\* let mut h = home.lock().await;
TuiLock ==
  /\ tpc = "lock"
  /\ \/ Acquire("tui") /\ tpc' = "draw"
     \/ Enqueue("tui") /\ tpc' = tpc
  /\ UNCHANGED << runVars, eventVars, queueVars, ghostVars,
                  homeVars, sigVars >>

\* tui.terminal.draw(|f| h.render(f, f.size())).unwrap();  -- the frame
\* shows home.counter as it is in this state
TuiDraw ==
  /\ tpc = "draw"
  /\ tpc' = "try_recv"
  /\ UNCHANGED << runVars, eventVars, lockVars, queueVars, ghostVars,
                  homeVars, sigVars >>

\* oneshot::Receiver::try_recv().ok().is_some()
Signalled(ch) == ch = "sent"

\* if stop_tui_rx.try_recv().ok().is_some() { break; }  -- `h` is dropped at
\* the end of the loop body, after the check
TuiLeavesLoop_Always(ch) == TRUE

TuiLeavesLoop(ch) == Signalled(ch)

TuiTryRecv ==
  /\ tpc = "try_recv"
  /\ IF Signalled(stop_tui)
     THEN /\ stop_tui' = "taken"
          /\ sig' = [ sig EXCEPT !.tuiRecv = @ + 1 ]
     ELSE UNCHANGED << stop_tui, sig >>
  /\ tpc' = IF TuiLeavesLoop(stop_tui) THEN "exit" ELSE "lock"
  /\ Release("tui")
  /\ UNCHANGED << runVars, eventVars, queueVars, ghostVars,
                  homeVars, stop_event >>

\* tui.exit() returned Ok: raw mode is left
ExitRaw_Skipped(r) == r

ExitRaw(r) == [ r EXCEPT !.exit = @ + 1 ]

\* tui.exit().unwrap();
TuiExit ==
  /\ tpc = "exit"
  /\ tpc' = "finished"
  /\ res' = ExitRaw(res)
  /\ UNCHANGED << runVars, eventVars, lockVars, queueVars,
                  loopGhost, homeVars, sigVars >>

\* one of the unwrap()s of the task panics; a guard held is dropped
TuiPanic ==
  /\ tpc \in { "new", "draw", "exit" }
  /\ tpc' = "panicked"
  /\ IF tpc = "draw" THEN Release("tui") ELSE UNCHANGED lockVars
  /\ UNCHANGED << runVars, eventVars, queueVars, ghostVars,
                  homeVars, sigVars >>

\* ------------------------------------------------------------- Event Task
\* let event = events.next().await;  -- the Event Source delivers input
\* events while it has some, and its timer keeps ticking afterwards
EventNext ==
  /\ epc = "next"
  /\ \/ /\ nEvents < MaxEvents
        /\ \E e \in RawEvent : event' = e
        /\ nEvents' = nEvents + 1
     \/ /\ stop_event = "sent"
        /\ event' = "Tick"
        /\ nEvents' = nEvents
  /\ epc' = "lock"
  /\ UNCHANGED << eaction, runVars, tuiVars, lockVars, queueVars, ghostVars,
                  homeVars, sigVars >>

\* home.lock().await
EventLock ==
  /\ epc = "lock"
  /\ \/ Acquire("event") /\ epc' = "handle"
     \/ Enqueue("event") /\ epc' = epc
  /\ UNCHANGED << event, eaction, nEvents, runVars, tuiVars, queueVars,
                  ghostVars, homeVars, sigVars >>

\* the guard of line 81 is a temporary: it is dropped at the end of the
\* `let` statement, before the send
EventGuardDrop_Kept == UNCHANGED lockVars

EventGuardDrop == Release("event")

\* let action = home.lock().await.handle_events(event);
EventHandle ==
  /\ epc = "handle"
  /\ eaction' = handle_events(event)
  /\ event' = "none"
  /\ EventGuardDrop
  /\ epc' = "send"
  /\ UNCHANGED << nEvents, runVars, tuiVars, queueVars, ghostVars, homeVars,
                  sigVars >>

\* tx.send(action).unwrap();
EventSend ==
  /\ epc = "send"
  /\ IF RxAlive
     THEN Send(eaction, "event") /\ epc' = "try_recv"
     ELSE UNCHANGED queueVars /\ epc' = "panicked"
  /\ eaction' = "none"
  /\ UNCHANGED << event, nEvents, runVars, tuiVars, lockVars, ghostVars,
                  homeVars, sigVars >>

\* if stop_event_rx.try_recv().ok().is_some() { .. break; }
EventLeavesLoop_Never(ch) == FALSE

EventLeavesLoop(ch) == Signalled(ch)

EventTryRecv ==
  /\ epc = "try_recv"
  /\ IF Signalled(stop_event)
     THEN /\ stop_event' = "taken"
          /\ sig' = [ sig EXCEPT !.eventRecv = @ + 1 ]
     ELSE UNCHANGED << stop_event, sig >>
  /\ epc' = IF EventLeavesLoop(stop_event) THEN "stop" ELSE "next"
  /\ UNCHANGED << event, eaction, nEvents, runVars, tuiVars, lockVars,
                  queueVars, ghostVars, homeVars, stop_tui >>

\* events.stop().await.unwrap(); break;
EventStop ==
  /\ epc = "stop"
  /\ \E ok \in BOOLEAN :
       /\ epc' = IF ok THEN "finished" ELSE "panicked"
       /\ res' = IF ok THEN [ res EXCEPT !.stop = @ + 1 ] ELSE res
  /\ UNCHANGED << event, eaction, nEvents, runVars, tuiVars, lockVars,
                  queueVars, loopGhost, homeVars, sigVars >>

\* ------------------------------------------------------------------ Home
\* a deferred action that dispatch scheduled is sent on home.tx
HomeScheduledSend ==
  /\ pending # << >>
  /\ RxAlive
  /\ Send(Head(pending), "model")
  /\ pending' = Tail(pending)
  /\ UNCHANGED << runVars, tuiVars, eventVars, lockVars, ghostVars,
                  txInstalled, initDone, should_quit, counter, applied,
                  sigVars >>

\* -------------------------------------------------------------- behaviour
RunStep ==
  \/ RunCreateChannel
  \/ RunLock
  \/ RunInstallTx
  \/ RunInit
  \/ RunSpawnTui
  \/ RunSpawnEvent
  \/ RunTryRecv
  \/ RunTrace
  \/ RunDispatch
  \/ RunSendFollowUp
  \/ RunQuitCheck
  \/ RunSendStopTui
  \/ RunSendStopEvent
  \/ RunJoinTui
  \/ RunJoinEvent

TuiStep == TuiEnter \/ TuiLock \/ TuiDraw \/ TuiTryRecv \/ TuiExit

EventStep == EventNext \/ EventLock \/ EventHandle \/ EventSend
             \/ EventTryRecv \/ EventStop

Next == RunStep \/ TuiStep \/ TuiPanic \/ EventStep \/ HomeScheduledSend

Spec == Init /\ [][Next]_vars

TypeOK ==
  /\ lock \in { "none", "run", "tui", "event" }
  /\ cur \in 0..Len(arrived)
  /\ \A i \in 1..Len(queue) : queue[i] \in 1..Len(arrived)
  /\ lock = "none" => waiters = << >>

\* the scheduling the code relies on: the tokio runtime keeps polling every
\* task that can make progress and the Event Source keeps delivering events
\* (ticks); nothing is assumed about when a deferred send of Home happens
Fairness ==
  /\ WF_vars(RunStep)
  /\ WF_vars(TuiStep)
  /\ WF_vars(EventStep)

FairSpec == Spec /\ Fairness

\* ----------------------------------------------------------------- ghosts
Ids == 1..Len(arrived)

Dispatched(i) == \E k \in 1..Len(dispatched) : dispatched[k] = i

DispatchCount(i) == Cardinality({ k \in 1..Len(dispatched) : dispatched[k] = i })

InCS(p) ==
  CASE p = "run" -> rpc \in { "install_tx", "init", "dispatch",
                               "send_followup", "quit_check" }
    [] p = "tui" -> tpc \in { "draw", "try_recv" }
    [] p = "event" -> epc = "handle"

\* the drain loop has just found the queue empty, or run() is past the loop
Drained == rpc \in { "quit_check_lock", "quit_check" } \/ QuitObserved

\* the shutdown signalling of line 121 has begun in this run
ShutdownBegun == rpc = "send_stop_tui" \/ sig.tuiSend > 0

\* ===================================================================== C1
\* C1 (as stated): once run() has returned Ok, every action that was put on
\* the queue before the shutdown began (before the quit check read
\* should_quit = true) has been passed to dispatch exactly once.
C1_Original ==
  rpc = "ok" =>
    \A i \in Ids : ~arrived[i].obs => DispatchCount(i) = 1

\* C1 (amended): no action is ever dispatched twice, only queued actions are
\* dispatched, and every action put on the queue while should_quit was still
\* false has been dispatched exactly once by the time the quit check starts
\* the shutdown.
C1_Theorem ==
  /\ \A i \in Ids : DispatchCount(i) <= 1
  /\ \A k \in 1..Len(dispatched) : dispatched[k] \in Ids
  /\ QuitObserved => \A i \in Ids : ~arrived[i].sq => DispatchCount(i) = 1

\* an action of the Event Task arrived after should_quit was set, before the
\* quit check, and run() returned Ok without dispatching it
C1_Witness ==
  /\ rpc = "ok"
  /\ \E i \in Ids : arrived[i].sq /\ ~arrived[i].obs /\ ~Dispatched(i)
  /\ \E i \in Ids : ~arrived[i].sq /\ DispatchCount(i) = 1

\* ===================================================================== C2
\* C2 (as stated): no dispatch call starts in a state where should_quit is
\* already true.
C2_Original == [][should_quit => dispatched' = dispatched]_vars

\* C2 (amended): should_quit never reverts to false, and no dispatch call
\* starts once the quit check of the run loop has read should_quit = true.
C2_Theorem ==
  [][ /\ should_quit => should_quit'
      /\ ShutdownBegun => dispatched' = dispatched ]_vars

\* run() returned although an action was still on the queue, after a dispatch
\* that followed the one of Quit
C2_Witness ==
  /\ rpc = "ok"
  /\ queue # << >>
  /\ \E k \in 1..Len(dispatched) :
       k < Len(dispatched) /\ ActionOf(dispatched[k]) = "Quit"

\* ===================================================================== C3
\* C3: whenever run() has returned after spawning the tasks, the Render Task
\* and the Event Task have both terminated.
C3_Claim == rpc \in { "ok", "join_err" } => TuiEnded /\ EventEnded

\* ===================================================================== C4
\* C4: once should_quit is true, eventually both shutdown signals have been
\* sent, both tasks have left their loops and run() has returned.
C4_Theorem ==
  should_quit ~> ( /\ RunReturned
                  /\ sig.tuiSend = 1 /\ sig.eventSend = 1
                  /\ TuiEnded /\ EventEnded )

C4_Witness ==
  /\ should_quit /\ rpc = "ok"
  /\ sig.tuiRecv = 1 /\ sig.eventRecv = 1
  /\ tpc = "finished" /\ epc = "finished"

\* ===================================================================== C5
FollowUpIds == { i \in Ids : arrived[i].src = "followup" }

\* C5: every follow-up action returned by dispatch is on the queue, and has
\* been passed to a later dispatch call by the time the drain loop finds the
\* queue empty, hence before run() returns.
C5_Theorem ==
  /\ Cardinality(FollowUpIds) = nFollowUps - (IF followup # "None" THEN 1 ELSE 0)
  /\ \A i \in FollowUpIds : i = cur \/ Dispatched(i) \/ \E k \in 1..Len(queue) : queue[k] = i
  /\ Drained => \A i \in FollowUpIds :
                  \E k \in 2..Len(dispatched) :
                    /\ dispatched[k] = i
                    /\ \E j \in 1..(k - 1) : Delta(ActionOf(dispatched[j])) # 0

C5_Witness ==
  /\ rpc = "ok"
  /\ nFollowUps > 0
  /\ \E i \in FollowUpIds : Dispatched(i)

\* ===================================================================== C6
\* C6: the actions passed to dispatch so far are, in order, the first actions
\* that arrived on the queue.
C6_Theorem ==
  /\ Len(dispatched) <= Len(arrived)
  /\ \A k \in 1..Len(dispatched) : dispatched[k] = k

C6_Witness ==
  /\ Len(dispatched) >= 3
  /\ \E i, j \in 1..Len(dispatched) :
       arrived[i].src = "event" /\ arrived[j].src = "model"
  /\ \E i \in 1..Len(dispatched) : arrived[i].src = "followup"

\* ===================================================================== C7
\* C7: at most one of run (dispatch), Render Task and Event Task is inside
\* its lock hold, a dispatch runs from call to follow-up send under one hold,
\* and the counter a frame shows is the sum of the deltas of the dispatches
\* that have completed.
C7_Theorem ==
  /\ Cardinality({ p \in { "run", "tui", "event" } : InCS(p) }) <= 1
  /\ \A p \in { "run", "tui", "event" } : InCS(p) => lock = p
  /\ tpc \in { "draw", "try_recv" } => counter = applied

\* a frame shows a changed counter while run() waits for the lock to dispatch
C7_Witness ==
  /\ tpc = "draw"
  /\ counter # 0
  /\ rpc = "dispatch_lock"
  /\ Queued("run")
  /\ Delta(ActionOf(cur)) # 0

\* ===================================================================== C8
NotTick(i) == ActionOf(i) # "Tick"

Popped ==
  dispatched \o (IF rpc \in { "dispatch_lock", "dispatch" } THEN << cur >>
                 ELSE << >>)

\* C8: the trace stream is the sequence of the popped actions other than
\* Tick, each traced once, before its dispatch call.
C8_Theorem ==
  /\ traced = SelectSeq(Popped, NotTick)
  /\ \A k \in 1..Len(dispatched) :
       NotTick(dispatched[k]) => \E t \in 1..Len(traced) : traced[t] = dispatched[k]

C8_Witness ==
  /\ \E k \in 1..Len(dispatched) : ActionOf(dispatched[k]) = "Tick"
  /\ Len(traced) >= 2
  /\ rpc = "dispatch" /\ NotTick(cur)

\* ===================================================================== C9
\* C9: once a task has been spawned, an action has been queued or an action
\* has been dispatched, the producer handle is installed and init() has
\* returned Ok.
C9_Theorem ==
  ( \/ tpc # "unspawned"
    \/ epc # "unspawned"
    \/ arrived # << >>
    \/ dispatched # << >>
    \/ event # "none" ) => txInstalled /\ initDone

C9_Witness ==
  /\ txInstalled /\ initDone
  /\ tpc = "draw" /\ epc = "lock" /\ Queued("event")
  /\ dispatched # << >>

\* ==================================================================== C10
\* C10: each shutdown signal is sent at most once and received at most once,
\* never received without having been sent, and a task that is past its loop
\* has received its signal.
C10_Theorem ==
  /\ sig.tuiSend <= 1 /\ sig.eventSend <= 1
  /\ sig.tuiRecv <= sig.tuiSend /\ sig.eventRecv <= sig.eventSend
  /\ tpc \in { "exit", "finished" } => sig.tuiRecv = 1
  /\ epc \in { "stop", "finished" } => sig.eventRecv = 1
  /\ tpc \in { "new", "lock", "draw", "try_recv" } => sig.tuiRecv = 0
  /\ epc \in { "next", "lock", "handle", "send", "try_recv" } => sig.eventRecv = 0

C10_Witness ==
  /\ tpc = "finished" /\ epc = "finished"
  /\ sig = [ tuiSend |-> 1, tuiRecv |-> 1, eventSend |-> 1, eventRecv |-> 1 ]

\* ==================================================================== C11
\* C11 (as stated): when the shutdown signals are about to be sent, the
\* dispatch of Quit lies in an earlier pass of the loop of run(): the signals
\* go out on the drain cycle that follows the one that dispatched Quit.
C11_Original == rpc = "send_stop_tui" => quitCycle = "earlier"

\* C11 (amended): the dispatch that consumes Quit sets should_quit, and the
\* quit check that ends the same drain cycle reads it as true and is followed
\* by the sends of both shutdown signals, before any join.
C11_Theorem ==
  [][ /\ ( rpc = "dispatch" /\ rpc' = "send_followup"
           /\ ActionOf(cur) = "Quit" ) => should_quit'
      /\ ( rpc = "quit_check" /\ rpc' # rpc /\ quitCycle # "none" ) =>
           ( rpc' = "send_stop_tui" /\ quitCycle = "this" )
      /\ ( rpc' = "join_tui" /\ rpc # rpc' ) =>
           ( sig'.tuiSend = 1 /\ sig'.eventSend = 1 ) ]_vars

\* Quit arrived behind another action; both signals have been sent in the
\* pass of the loop that dispatched Quit
C11_Witness ==
  /\ rpc = "join_tui"
  /\ quitCycle = "this"
  /\ stop_tui = "sent" /\ stop_event = "sent"
  /\ \E k \in 2..Len(dispatched) : ActionOf(dispatched[k]) = "Quit"

\* ==================================================================== C12
\* C12: when init() has failed, run() has returned the error as its next
\* step: no task is spawned, no action was popped or dispatched, and no
\* shutdown channel was created or used.
C12_Theorem ==
  ( /\ ~initDone
    /\ rpc \notin { "create_channel", "install_tx_lock", "install_tx",
                    "init_lock", "init" } ) =>
      /\ rpc = "init_err"
      /\ tpc = "unspawned" /\ epc = "unspawned"
      /\ cur = 0 /\ dispatched = << >> /\ traced = << >>
      /\ stop_tui = "none" /\ stop_event = "none"
      /\ sig = [ tuiSend |-> 0, tuiRecv |-> 0, eventSend |-> 0, eventRecv |-> 0 ]
      /\ lock = "none"

C12_Witness ==
  /\ rpc = "init_err"
  /\ txInstalled /\ ~initDone
  /\ tpc = "unspawned" /\ epc = "unspawned"

\* ==================================================================== C13
\* C13: both shutdown signals have been sent before any join; the Render
\* Task is joined first and the Event Task only after the Render Task ended
\* normally; when the Render Task ended abnormally run() returns the error on
\* that join, whatever the Event Task is doing.
C13_Theorem ==
  [][ /\ ( rpc' \in { "join_tui", "join_event", "ok", "join_err" } ) =>
           ( sig'.tuiSend = 1 /\ sig'.eventSend = 1 )
      /\ ( rpc' = "join_event" /\ rpc # rpc' ) =>
           ( rpc = "join_tui" /\ tpc = "finished" )
      /\ ( rpc = "join_tui" /\ rpc' # rpc /\ tpc = "panicked" ) =>
           rpc' = "join_err"
      /\ ( rpc' = "ok" /\ rpc # rpc' ) =>
           ( rpc = "join_event" /\ epc = "finished" ) ]_vars

\* run() has returned the join error of the Render Task while the Event
\* Task, signalled, still awaits its next event
C13_Witness ==
  /\ rpc = "join_err"
  /\ tpc = "panicked"
  /\ epc = "next"
  /\ stop_event = "sent"

\* ==================================================================== C14
\* a send of a shutdown signal found the receiver gone (the Err was ignored)
SendFailed ==
  \/ sig.tuiSend = 1 /\ stop_tui = "open"
  \/ sig.eventSend = 1 /\ stop_event = "open"

\* C14: after a send of a shutdown signal has failed, run() still sends the
\* other signal and goes on to await both joins: it is sending, it is
\* awaiting a join, or it has returned with both tasks awaited to their end.
C14_Claim ==
  SendFailed =>
    \/ rpc \in { "send_stop_event", "join_tui", "join_event" }
    \/ RunReturned /\ sig.eventSend = 1 /\ TuiEnded /\ EventEnded

\* ==================================================================== C15
Parties == { "run", "tui", "event" }

Live(p) ==
  CASE p = "run" -> ~RunReturned
    [] p = "tui" -> tpc \notin { "unspawned", "finished", "panicked" }
    [] p = "event" -> epc \notin { "unspawned", "finished", "panicked" }

\* the party is inside a lock hold, or was just handed the mutex
AtLock(p) ==
  CASE p = "run" -> rpc \in RunLockPoint \/ InCS("run")
    [] p = "tui" -> tpc = "lock" \/ InCS("tui")
    [] p = "event" -> epc = "lock" \/ InCS("event")

\* the party cannot take a step until another party does
Blocked(p) ==
  CASE p = "run" -> \/ rpc \in RunLockPoint /\ Queued("run")
                    \/ rpc = "join_tui" /\ ~TuiEnded
                    \/ rpc = "join_event" /\ ~EventEnded
    [] p = "tui" -> tpc = "lock" /\ Queued("tui")
    [] p = "event" -> epc = "lock" /\ Queued("event")

\* C15: the mutex is only ever held by a live party that is inside its lock
\* hold (never by the Event Task awaiting an event or forwarding, nor by
\* run() awaiting a join), a queued party waits for a holder, and before
\* run() has returned some live party is not blocked.
C15_Theorem ==
  /\ \A p \in Parties : lock = p => Live(p) /\ AtLock(p) /\ ~Queued(p)
  /\ \A p \in Parties : Queued(p) => lock \in Parties \ { p }
  /\ epc \in { "next", "send", "try_recv", "stop" } => lock # "event"
  /\ rpc \in { "join_tui", "join_event" } => lock # "run"
  /\ ~RunReturned => \E p \in Parties : Live(p) /\ ~Blocked(p)

\* the Render Task holds the mutex while run() and the Event Task queue
C15_Witness ==
  /\ lock = "tui"
  /\ waiters = << "event", "run" >>
  /\ rpc = "dispatch_lock"

\* ==================================================================== C16
\* C16: run() goes to its should_quit check only from a pop that found the
\* queue empty, and at that pop every action that has arrived so far (those
\* queued when the drain started and the follow-ups of the drain included)
\* has been dispatched; should_quit is read only after such a pop.
C16_Theorem ==
  [][ /\ ( rpc' = "quit_check_lock" /\ rpc # rpc' ) =>
           /\ rpc = "try_recv"
           /\ queue = << >> /\ queue' = << >>
           /\ cur = 0
           /\ Len(dispatched) = Len(arrived)
           /\ \A i \in Ids : DispatchCount(i) = 1
      /\ ( rpc' = "quit_check" /\ rpc # rpc' ) => rpc = "quit_check_lock"
      /\ ( rpc = "quit_check" /\ rpc' # rpc ) =>
           \A i \in FollowUpIds : Dispatched(i) ]_vars

\* a drain that dispatched three actions, a follow-up among them, has found
\* the queue empty and should_quit is about to be read as true
C16_Witness ==
  /\ rpc = "quit_check"
  /\ should_quit
  /\ Len(dispatched) >= 3
  /\ \E i \in FollowUpIds : Dispatched(i)

\* ==================================================================== C17
\* the Event Task is signalled and suspended at events.next().await
SignalledAtNext == stop_event = "sent" /\ epc = "next"

\* C17: while the Event Task is signalled and awaits its next event, every
\* step in which the Event Source delivers nothing leaves it there, with the
\* signal unobserved, and leaves run() not returned.
C17_Claim ==
  [][ ( SignalledAtNext /\ event' = event ) =>
        /\ epc' = "next"
        /\ sig'.eventRecv = 0
        /\ ~RunReturned' ]_vars

\* ==================================================================== C18
\* the step that runs TuiHandler::new() and tui.enter()
EntersRaw == tpc = "new" /\ tpc' = "lock"

\* C18: raw mode is entered by one step only, before the first pass of the
\* render loop, and that step is never taken again; raw mode is left at
\* most once, only after the Render Task received its signal; the Event
\* Source is stopped at most once, only after the Event Task received its
\* signal; a task has ended normally exactly when its teardown succeeded, and
\* when run() has returned Ok raw mode has been left and the Event Source is
\* stopped.
C18_Theorem ==
  /\ [] ( /\ res.exit <= 1 /\ res.stop <= 1
          /\ res.exit = 1 => sig.tuiRecv = 1
          /\ res.stop = 1 => sig.eventRecv = 1
          /\ tpc = "finished" <=> res.exit = 1
          /\ epc = "finished" <=> res.stop = 1
          /\ rpc = "ok" => res = [ exit |-> 1, stop |-> 1 ] )
  /\ [][ /\ ( tpc' = "new" /\ tpc # "new" ) => tpc = "unspawned"
         /\ ( tpc' = "unspawned" ) => tpc = "unspawned"
         /\ ( tpc' = "lock" /\ tpc # "lock" ) =>
              ( EntersRaw \/ ( tpc = "try_recv" /\ stop_tui # "sent" ) )
         /\ ( tpc' = "draw" /\ tpc # "draw" ) => tpc = "lock"
         /\ ( tpc' = "exit" /\ tpc # "exit" ) =>
              ( tpc = "try_recv" /\ stop_tui = "sent" /\ stop_tui' = "taken" )
         /\ ( epc' = "stop" /\ epc # "stop" ) =>
              ( epc = "try_recv" /\ stop_event = "sent" /\ stop_event' = "taken" )
       ]_vars

C18_Witness ==
  /\ rpc = "ok"
  /\ res = [ exit |-> 1, stop |-> 1 ]
  /\ stop_tui = "taken" /\ stop_event = "taken"

\* ==================================================================== C19
\* C19: when the Render Task checks its shutdown signal it does not hold the
\* Home mutex (the frame was drawn and the mutex released before the check).
C19_Claim == tpc = "try_recv" => lock # "tui"

\* ==================================================================== C20
\* actions the Event Task put on the queue after line 122 had run
LateEventIds == { i \in Ids : arrived[i].src = "event" /\ arrived[i].sent }

\* C20: the Event Task puts at most one action on the queue after its
\* shutdown signal was sent, and none once it has received the signal.
C20_Theorem ==
  /\ Cardinality(LateEventIds) <= 1
  /\ ( LateEventIds # { } /\ epc \notin { "panicked" } ) =>
       \/ epc = "try_recv" /\ stop_event = "sent"
       \/ epc \in { "stop", "finished" }
  /\ stop_event = "taken" => epc \in { "stop", "finished", "panicked" }

\* the Event Task left its loop after forwarding one action past the signal
C20_Witness ==
  /\ epc = "finished"
  /\ Cardinality(LateEventIds) = 1
  /\ \E i \in Ids : arrived[i].src = "event" /\ ~arrived[i].sent

====
